---- MODULE Spec2Model ----
(***************************************************************************)
(* A model of the Metadesk tokenizer and recursive-descent parser of       *)
(* src/src/metadesk.ts.                                                    *)
(*                                                                         *)
(* Text is a sequence of characters, each character a one-character        *)
(* string; "VT" stands for the vertical tab and "TICK" for the backtick,   *)
(* which TLA+ strings cannot spell.  Positions are 0-based in the source   *)
(* and in slice(), as in JavaScript, and 1-based in the TLA+ sequences     *)
(* underneath.                                                             *)
(***************************************************************************)
EXTENDS Integers, Sequences, FiniteSets, TLC

----------------------------------------------------------------------------
(* Characters *)

Lower == {"a","b","c","d","e","f","g","h","i","j","k","l","m",
          "n","o","p","q","r","s","t","u","v","w","x","y","z"}
Upper == {"A","B","C","D","E","F","G","H","I","J","K","L","M",
          "N","O","P","Q","R","S","T","U","V","W","X","Y","Z"}
Digit == {"0","1","2","3","4","5","6","7","8","9"}

\* /^[a-zA-Z_]/ and /[a-zA-Z0-9_]/ of identifierMatch
IdentStart == Lower \cup Upper \cup {"_"}
IdentPart  == IdentStart \cup Digit
\* [a-zA-Z0-9._] of numericMatch
NumericPart == Lower \cup Upper \cup Digit \cup {".", "_"}

SpaceChars == {" ", "\r", "\t", "\f", "VT"}

UnreservedSymbols == {"~","!","$","%","^","&","*","-","=","+","<",".",">","/","?","|"}
ReservedSymbols   == {"{","}","(",")","\\","[","]","#",",",";",":","@"}

charIsUnreservedSymbol(c) == c \in UnreservedSymbols
charIsReservedSymbol(c) == c \in ReservedSymbols

----------------------------------------------------------------------------
(* JavaScript string primitives *)

Min(a, b) == IF a < b THEN a ELSE b
Max(a, b) == IF a > b THEN a ELSE b

\* String.prototype.slice(from, to): a negative index counts from the end,
\* both ends are clamped to the string, an empty range gives "".
slice(s, from, to) ==
    LET n == Len(s)
        f == IF from < 0 THEN Max(n + from, 0) ELSE Min(from, n)
        t == IF to < 0 THEN Max(n + to, 0) ELSE Min(to, n)
    IN  IF f >= t THEN <<>> ELSE SubSeq(s, f + 1, t)

\* s[i] with a 0-based i; "undefined" past the end
charAt(s, i) == IF i >= 0 /\ i < Len(s) THEN s[i + 1] ELSE "undefined"

\* String.prototype.includes for a one-character or empty needle
includes(chars, needle) ==
    \/ needle = <<>>
    \/ Len(needle) = 1 /\ needle[1] \in chars

----------------------------------------------------------------------------
(* Tokens *)

\* enum TokenKind; Invalid is 0, every other kind one bit
TokenKinds == {"Identifier", "Numeric", "StringLiteral", "Symbol", "Reserved",
               "Comment", "Whitespace", "Newline",
               "BrokenComment", "BrokenStringLiteral", "BadCharacter"}

\* A kind mask is the set of the kinds whose bit it holds.  ~0 holds every
\* bit, and (Invalid & mask) is 0 for every mask.
AllTokens == TokenKinds
Label == {"Identifier", "Numeric", "StringLiteral", "Symbol"}
WhitespaceLine == {"Whitespace", "Comment"}
WhitespaceAll == {"Whitespace", "Newline", "Comment"}

Token(kind, string, rawString, remaining) ==
    [kind |-> kind, string |-> string, rawString |-> rawString,
     remaining |-> remaining]

\* "undefined" where a Token is expected
NoToken == [kind |-> "undefined", string |-> <<>>, rawString |-> <<>>,
            remaining |-> <<>>]

\* scan(): from len on, the first position whose character is not in (or,
\* with stop, is in) chars
RECURSIVE scan(_, _, _, _)
scan(string, len, chars, stop) ==
    IF len < Len(string) /\ ((string[len + 1] \in chars) # stop)
    THEN scan(string, len + 1, chars, stop)
    ELSE len

\* Mutant: an opener inside a block comment is not counted
RECURSIVE blockCommentLoop_NoNesting(_, _, _)
blockCommentLoop_NoNesting(string, len, commentDepth) ==
    IF len < Len(string) /\ commentDepth > 0
    THEN IF len + 1 < Len(string)
              /\ charAt(string, len) = "*" /\ charAt(string, len + 1) = "/"
         THEN blockCommentLoop_NoNesting(string, len + 2, commentDepth - 1)
         ELSE blockCommentLoop_NoNesting(string, len + 1, commentDepth)
    ELSE [len |-> len, commentDepth |-> commentDepth]

\* The block comment loop: [len, commentDepth] when it ends
RECURSIVE blockCommentLoop(_, _, _)
blockCommentLoop(string, len, commentDepth) ==
    IF len < Len(string) /\ commentDepth > 0
    THEN IF len + 1 < Len(string)
              /\ charAt(string, len) = "*" /\ charAt(string, len + 1) = "/"
         THEN blockCommentLoop(string, len + 2, commentDepth - 1)
         ELSE IF len + 1 < Len(string)
                   /\ charAt(string, len) = "/" /\ charAt(string, len + 1) = "*"
         THEN blockCommentLoop(string, len + 2, commentDepth + 1)
         ELSE blockCommentLoop(string, len + 1, commentDepth)
    ELSE [len |-> len, commentDepth |-> commentDepth]

\* Mutant: a backslash skips whatever follows it
isEscape_AnyCharacter(string, len, delim) ==
    /\ charAt(string, len) = "\\"
    /\ len + 1 < Len(string)

\* a backslash before the active delimiter or another backslash
isEscape(string, len, delim) ==
    /\ charAt(string, len) = "\\"
    /\ charAt(string, len + 1) \in {delim, "\\"}

\* The triple-delimited string loop: [len, closed] when it ends
RECURSIVE tripletLoop(_, _, _, _)
tripletLoop(string, len, delim, consecutiveDelims) ==
    IF len < Len(string)
    THEN IF charAt(string, len) = delim
         THEN IF consecutiveDelims + 1 = 3
              THEN [len |-> len + 1, closed |-> TRUE]
              ELSE tripletLoop(string, len + 1, delim, consecutiveDelims + 1)
         ELSE IF isEscape(string, len, delim)
              THEN tripletLoop(string, len + 2, delim, 0)
              ELSE tripletLoop(string, len + 1, delim, 0)
    ELSE [len |-> len, closed |-> FALSE]

\* The single-delimited string loop: [len, closed] when it ends
RECURSIVE singleLoop(_, _, _)
singleLoop(string, len, delim) ==
    IF len < Len(string)
    THEN IF charAt(string, len) = delim
         THEN [len |-> len + 1, closed |-> TRUE]
         ELSE IF charAt(string, len) = "\n"
         THEN [len |-> len, closed |-> FALSE]
         ELSE IF isEscape(string, len, delim)
              THEN singleLoop(string, len + 2, delim)
              ELSE singleLoop(string, len + 1, delim)
    ELSE [len |-> len, closed |-> FALSE]

\* string.match(/^[a-zA-Z_][a-zA-Z0-9_]*/): the length matched, 0 for null
identifierMatch(string) ==
    IF string # <<>> /\ string[1] \in IdentStart
    THEN scan(string, 1, IdentPart, FALSE)
    ELSE 0

\* Mutant: no exponent sign in a number
numericBody_NoExponent(string, len) ==
    scan(string, len, NumericPart, FALSE)

\* The body ([eE][+-]|[a-zA-Z0-9._])* : the first alternative is tried first
RECURSIVE numericBody(_, _)
numericBody(string, len) ==
    IF charAt(string, len) \in {"e", "E"} /\ charAt(string, len + 1) \in {"+", "-"}
    THEN numericBody(string, len + 2)
    ELSE IF charAt(string, len) \in NumericPart
    THEN numericBody(string, len + 1)
    ELSE len

\* string.match(/^-?[0-9]([eE][+-]|[a-zA-Z0-9._])*/): the length matched
numericMatch(string) ==
    LET start == IF charAt(string, 0) = "-" THEN 1 ELSE 0
    IN  IF charAt(string, start) \in Digit
        THEN numericBody(string, start + 1)
        ELSE 0

\* What getToken leaves in kind, len, skip, chop and flags at its return
lexed(kind, len, skip, chop, flags) ==
    [kind |-> kind, len |-> len, skip |-> skip, chop |-> chop, flags |-> flags]

\* The flags of a string literal: its quote family, and the triplet bit
stringFlags(delim, isTriplet) ==
    {"StringLiteral"}
    \cup (CASE delim = "'" -> {"StringSingleQuote"}
            [] delim = "\"" -> {"StringDoubleQuote"}
            [] delim = "TICK" -> {"StringTick"})
    \cup (IF isTriplet THEN {"StringTriplet"} ELSE {})

\* Mutant: one closing delimiter is cut whatever the opening is
stringLexed_ChopOne(end, n, flags) ==
    IF end.closed
    THEN lexed("StringLiteral", end.len, n, 1, flags)
    ELSE lexed("BrokenStringLiteral", end.len, n, 0, flags)

\* kind, skip and chop of a string whose loop ended at end, n delimiters
\* on each side
stringLexed(end, n, flags) ==
    IF end.closed
    THEN lexed("StringLiteral", end.len, n, n, flags)
    ELSE lexed("BrokenStringLiteral", end.len, n, 0, flags)

lexString(string) ==
    IF Len(string) >= 3 /\ string[2] = string[1] /\ string[3] = string[1]
    THEN stringLexed(tripletLoop(string, 3, string[1], 0), 3,
                     stringFlags(string[1], TRUE))
    ELSE stringLexed(singleLoop(string, 1, string[1]), 1,
                     stringFlags(string[1], FALSE))

\* kind and chop of a block comment whose loop ended at end
commentLexed(end) ==
    IF end.commentDepth = 0
    THEN lexed("Comment", end.len, 2, 2, {})
    ELSE lexed("BrokenComment", end.len, 2, 0, {})

lexComment(string) ==
    IF Len(string) <= 1
    THEN lexed("Invalid", 0, 0, 0, {})
    ELSE IF string[2] = "/"
    THEN lexed("Comment", scan(string, 2, {"\n", "\r"}, TRUE), 2, 0, {})
    ELSE IF string[2] = "*"
    THEN commentLexed(blockCommentLoop(string, 2, 1))
    ELSE lexed("Invalid", 0, 0, 0, {})

lexDefault(string) ==
    IF identifierMatch(string) > 0
    THEN lexed("Identifier", identifierMatch(string), 0, 0, {"Identifier"})
    ELSE IF numericMatch(string) > 0
    THEN lexed("Numeric", numericMatch(string), 0, 0, {"Numeric"})
    ELSE IF charIsUnreservedSymbol(string[1])
    THEN lexed("Symbol", scan(string, 1, UnreservedSymbols, FALSE), 0, 0, {"Symbol"})
    ELSE IF charIsReservedSymbol(string[1])
    THEN lexed("Reserved", 1, 0, 0, {})
    ELSE lexed("BadCharacter", 1, 0, 0, {})

\* The switch on string[0]
lex(string) ==
    CASE string[1] = "\n" -> lexed("Newline", 1, 0, 0, {})
      [] string[1] \in SpaceChars ->
            lexed("Whitespace", scan(string, 1, SpaceChars, FALSE), 0, 0, {})
      [] string[1] = "/" -> lexComment(string)
      [] string[1] \in {"\"", "'", "TICK"} -> lexString(string)
      [] OTHER -> lexDefault(string)

\* new Token(kind, string.slice(skip, len - chop), string.slice(0, len),
\* string.slice(len)), l being what the switch left
newToken(string, l) ==
    Token(l.kind,
          slice(string, l.skip, l.len - l.chop),
          slice(string, 0, l.len),
          slice(string, l.len, Len(string)))

\* getToken: NoToken for "", else the Token.  The flags that the switch
\* computes are not an argument of the Token constructor.
getToken(string) ==
    IF string = <<>> THEN NoToken ELSE newToken(string, lex(string))

----------------------------------------------------------------------------
(* Nodes and errors *)

\* class Node, as its constructor leaves it.  flags is the set of the
\* NodeFlags bits that are set; no code assigns next, prev or parent.
Node(kind, str, rawStr, offset) ==
    [kind |-> kind, flags |-> {}, string |-> str, rawString |-> rawStr,
     offset |-> offset, comment |-> <<>>,
     next |-> "undefined", prev |-> "undefined", parent |-> "undefined",
     children |-> <<>>, tags |-> <<>>]

\* The flag groups of enum NodeFlags
MaskSetDelimiters == {"HasParenLeft", "HasParenRight", "HasBracketLeft",
                      "HasBracketRight", "HasBraceLeft", "HasBraceRight"}
MaskSeparators == {"IsBeforeSemicolon", "IsAfterSemicolon",
                   "IsBeforeComma", "IsAfterComma"}
MaskStringDelimiters == {"StringSingleQuote", "StringDoubleQuote",
                         "StringTick", "StringTriplet"}
MaskLabelKind == {"Numeric", "Identifier", "StringLiteral", "Symbol"}

\* "undefined" where a Node is expected
NoNode == Node("undefined", <<>>, <<>>, 0)

\* sanitize(): every newline becomes backslash n, every tab backslash t
RECURSIVE sanitize(_)
sanitize(str) ==
    IF str = <<>> THEN <<>>
    ELSE (CASE str[1] = "\n" -> <<"\\", "n">>
            [] str[1] = "\t" -> <<"\\", "t">>
            [] OTHER -> <<str[1]>>) \o sanitize(Tail(str))

\* The iteration cap of forever()
ForeverCap == 10000

----------------------------------------------------------------------------
(* class ParseContext.  A method is an operator from the context (and its  *)
(* arguments) to the context it leaves and its return value.  thrown       *)
(* records that forever() threw: the exception unwinds to the caller of    *)
(* parse, so whatever the pending frames compute after it is discarded.    *)

ParseContext(source) ==
    [source |-> source, remaining |-> source, last |-> NoToken,
     errors |-> <<>>, thrown |-> FALSE]

offset(ctx) == Len(ctx.source) - Len(ctx.remaining)

\* The predicates the parser hands to check and consume as cond
any(token) == TRUE
isOpener(token) == includes({"(", "[", "{"}, token.string)
isCloser(token) == includes({")", "]", "}"}, token.string)
\* Mutant: the semicolon is forgotten
isSeparator_CommaOnly(token) == includes({","}, token.string)

isSeparator(token) == includes({",", ";"}, token.string)
isColon(token) == token.string = <<":">>
isAt(token) == token.string = <<"@">>

\* cond(token), cond being given by the name of the predicate
cond(name, token) ==
    CASE name = "any" -> any(token)
      [] name = "isOpener" -> isOpener(token)
      [] name = "isCloser" -> isCloser(token)
      [] name = "isSeparator" -> isSeparator(token)
      [] name = "isColon" -> isColon(token)
      [] name = "isAt" -> isAt(token)

\* Mutant: the kind of the token is not tested, so that the zero-length
\* token of kind Invalid matches
checked_AnyKind(token, kind, name) ==
    IF token # NoToken /\ cond(name, token)
    THEN token
    ELSE NoToken

\* The test check makes on the token that getToken returned
checked(token, kind, name) ==
    IF token # NoToken /\ token.kind \in kind /\ cond(name, token)
    THEN token
    ELSE NoToken

check(ctx, kind, name) == checked(getToken(ctx.remaining), kind, name)

\* Mutant: the consumed token is not recorded as last
consumed_KeepsLast(ctx, token) ==
    IF token # NoToken
    THEN [ctx |-> [ctx EXCEPT !.remaining = token.remaining], token |-> token]
    ELSE [ctx |-> ctx, token |-> NoToken]

\* What consume does with the token that check returned
consumed(ctx, token) ==
    IF token # NoToken
    THEN [ctx |-> [ctx EXCEPT !.remaining = token.remaining, !.last = token],
          token |-> token]
    ELSE [ctx |-> ctx, token |-> NoToken]

consume(ctx, kind, name) == consumed(ctx, check(ctx, kind, name))

throw(ctx) == [ctx EXCEPT !.thrown = TRUE]

\* The loop of consumeAll.  Its state st is the context, the tokens pushed
\* so far, the number i of rounds begun, and whether the loop is over (by
\* break, or by the throw of forever()).

\* The body of the loop, c being what consume returned
consumeAllBody(st, c) ==
    IF c.token = NoToken
    THEN [st EXCEPT !.over = TRUE]
    ELSE [ctx |-> c.ctx, tokens |-> Append(st.tokens, c.token),
          i |-> st.i + 1, over |-> FALSE]

\* One round: forever() yields or throws, then the body
consumeAllRound(st, kind) ==
    IF st.i >= ForeverCap
    THEN [st EXCEPT !.ctx = throw(@), !.over = TRUE]
    ELSE consumeAllBody(st, consume(st.ctx, kind, "any"))

RECURSIVE consumeAllLoop(_, _, _)

\* The rounds that are left, unless the loop is over
consumeAllRest(st, kind, n) ==
    IF st.over THEN st ELSE consumeAllLoop(st, kind, n)

\* At most n rounds, one after the other.  They are taken in two halves,
\* so that n rounds nest to the depth log n only.
consumeAllLoop(st, kind, n) ==
    IF n = 1
    THEN consumeAllRound(st, kind)
    ELSE consumeAllRest(consumeAllLoop(st, kind, n \div 2), kind,
                        n - (n \div 2))

RECURSIVE consumeAllBlocks(_, _, _, _)

\* The blocks that are left, unless the loop is over
consumeAllNext(st, kind, n, left) ==
    IF st.over \/ left = 0 THEN st ELSE consumeAllBlocks(st, kind, n, left)

\* At most left rounds, in blocks of n, 2n, 4n, ... rounds, so that a loop
\* of few rounds nests to a small depth
consumeAllBlocks(st, kind, n, left) ==
    consumeAllNext(consumeAllLoop(st, kind, Min(n, left)), kind,
                   2 * n, left - Min(n, left))

\* forever() yields ForeverCap times and throws when asked once more
consumeAll(ctx, kind) ==
    consumeAllBlocks([ctx |-> ctx, tokens |-> <<>>, i |-> 0, over |-> FALSE],
                     kind, 1, ForeverCap + 1)

done(ctx) == check(ctx, AllTokens, "any") = NoToken

error(ctx, msg, at) ==
    [ctx EXCEPT !.errors = Append(@, [message |-> msg, offset |-> at])]

\* The token that the loop of getLastComment assigned last: the one at the
\* greatest of the positions at, or undefined when there is none
getLastCommentFrom(tokens, at) ==
    IF at = {}
    THEN NoToken
    ELSE tokens[CHOOSE i \in at : \A j \in at : j <= i]

getLastComment(tokens) ==
    getLastCommentFrom(tokens,
                       {i \in DOMAIN tokens : tokens[i].kind = "Comment"})

\* The context and the last comment, a being what consumeAll returned
whitespace(a) == [ctx |-> a.ctx, comment |-> getLastComment(a.tokens)]

consumeWhitespaceLine(ctx) == whitespace(consumeAll(ctx, WhitespaceLine))

consumeWhitespaceAll(ctx) == whitespace(consumeAll(ctx, WhitespaceAll))

\* consumeWhitespaceNode after its two runs of whitespace, a and b
whitespaceNode(a, b) ==
    [ctx |-> b.ctx, comment |-> getLastComment(a.tokens \o b.tokens)]

\* consumeWhitespaceNode after its first run of whitespace, a
whitespaceNodeAfter(a) ==
    whitespaceNode(a, consumeAll(consume(a.ctx, {"Newline"}, "any").ctx,
                                 WhitespaceLine))

consumeWhitespaceNode(ctx) ==
    whitespaceNodeAfter(consumeAll(ctx, WhitespaceLine))

----------------------------------------------------------------------------
(* The grammar productions *)

orEmpty(list) == IF list.defined THEN list.children ELSE <<>>

openerFlag(c) ==
    CASE c = <<"(">> -> {"HasParenLeft"}
      [] c = <<"[">> -> {"HasBracketLeft"}
      [] c = <<"{">> -> {"HasBraceLeft"}
      [] OTHER -> {}

\* Mutant: "]" sets the flag of ")"
closerFlag_BracketAsParen(c) ==
    CASE c = <<")">> -> {"HasParenRight"}
      [] c = <<"]">> -> {"HasParenRight"}
      [] c = <<"}">> -> {"HasBraceRight"}
      [] OTHER -> {}

closerFlag(c) ==
    CASE c = <<")">> -> {"HasParenRight"}
      [] c = <<"]">> -> {"HasBracketRight"}
      [] c = <<"}">> -> {"HasBraceRight"}
      [] OTHER -> {}

\* Mutant: an opener goes with its own closer only
compatible_SamePairOnly(opener, closer) ==
    <<opener, closer>> \in {<< <<"(">>, <<")">> >>, << <<"[">>, <<"]">> >>,
                            << <<"{">>, <<"}">> >>}

\* isBraced || isBracketed
compatible(opener, closer) ==
    \/ opener = <<"{">> /\ closer = <<"}">>
    \/ includes({"(", "["}, opener) /\ includes({")", "]"}, closer)

\* Mutant: ";" hands the comma's flag to the next node
separatorFlags_Swapped(c) ==
    CASE c = <<",">> -> [before |-> {"IsBeforeComma"}, after |-> {"IsAfterComma"}]
      [] c = <<";">> -> [before |-> {"IsBeforeSemicolon"}, after |-> {"IsAfterComma"}]
      [] OTHER -> [before |-> {}, after |-> {}]

separatorFlags(c) ==
    CASE c = <<",">> -> [before |-> {"IsBeforeComma"}, after |-> {"IsAfterComma"}]
      [] c = <<";">> -> [before |-> {"IsBeforeSemicolon"}, after |-> {"IsAfterSemicolon"}]
      [] OTHER -> [before |-> {}, after |-> {}]

labelError(ctx) ==
    LET next == check(ctx, AllTokens, "any")
    IN  <<"expected a valid node label, but got \"">>
        \o sanitize(IF next # NoToken THEN next.string
                    ELSE <<"end of file">>)
        \o <<"\" instead">>

tagLabelError(ctx) ==
    <<"\"">>
    \o sanitize(IF ctx.last # NoToken THEN ctx.last.rawString
                ELSE <<"<undefined>">>)
    \o <<"\" is not a proper tag label">>

pairError(opener, closer) ==
    <<"\"">> \o opener \o <<"\" and \"">> \o closer
    \o <<"\" cannot be used together">>

RECURSIVE parseNode(_, _)
RECURSIVE parseTagListLoop(_, _, _, _)
RECURSIVE parseExplicitList(_)
RECURSIVE parseExplicitChildren(_)
RECURSIVE parseExplicitChildrenLoop(_, _, _, _, _)
RECURSIVE parseImplicitListLoop(_, _, _, _)

parseTagList(ctx, preComment) == parseTagListLoop(ctx, <<>>, preComment, 0)

parseImplicitList(ctx, preComment) == parseImplicitListLoop(ctx, <<>>, preComment, 0)

\* "node.children = children ?? []; node.flags |= flags", list being what
\* parseExplicitList returned
withExplicitList(node, list) ==
    [ctx |-> list.ctx,
     node |-> [node EXCEPT !.children = orEmpty(list),
                           !.flags = @ \cup list.flags]]

\* "node.children = this.parseImplicitList(comment)"
withImplicitList(node, list) ==
    [ctx |-> list.ctx, node |-> [node EXCEPT !.children = list.nodes]]

\* parseNode after the colon and the whitespace ws that follows it
parseChildren(node, ws) ==
    IF check(ws.ctx, {"Reserved"}, "isOpener") # NoToken
    THEN withExplicitList(node, parseExplicitList(ws.ctx))
    ELSE withImplicitList(node, parseImplicitList(ws.ctx, ws.comment))

\* parseNode after the label, colon being what consume returned for ":"
parseColon(node, colon) ==
    IF colon.token = NoToken
    THEN [ctx |-> colon.ctx, node |-> node]
    ELSE parseChildren(node, consumeWhitespaceNode(colon.ctx))

\* parseNode at the label, label being what consume(Label) returned
parseLabel(ctx, node, label) ==
    IF label.token = NoToken
    THEN [ctx |-> error(ctx, labelError(ctx), offset(ctx)), node |-> NoNode]
    ELSE parseColon([node EXCEPT !.string = label.token.string],
                    consume(label.ctx, {"Reserved"}, "isColon"))

\* parseNode from the label on: [ctx, node], node = NoNode for no label
parseNamed(ctx, node) == parseLabel(ctx, node, consume(ctx, Label, "any"))

\* "consumeWhitespaceAll() ?? preComment"
orPreComment(comment, preComment) ==
    IF comment # NoToken THEN comment ELSE preComment

\* The node of parseNode with its tags and its comment
mainNode(startOffset, tags, commentToken) ==
    [Node("Main", <<>>, <<>>, startOffset)
        EXCEPT !.tags = tags.nodes, !.comment = commentToken.string]

\* "node.rawString = this.source.slice(startOffset, endOffset)", unless
\* parseNode returned undefined
withRawString(startOffset, body) ==
    IF body.node = NoNode
    THEN body
    ELSE [ctx |-> body.ctx,
          node |-> [body.node EXCEPT !.rawString =
                       slice(body.ctx.source, startOffset, offset(body.ctx))]]

\* parseNode after the tags and the whitespace ws that follows them
parseBody(node, ws) ==
    IF check(ws.ctx, {"Reserved"}, "isOpener") # NoToken
    THEN withExplicitList(node, parseExplicitList(ws.ctx))
    ELSE parseNamed(ws.ctx, node)

\* parseNode after the tags
parseTagged(startOffset, preComment, tags, ws) ==
    withRawString(startOffset,
        parseBody(mainNode(startOffset, tags, orPreComment(ws.comment, preComment)),
                  ws))

\* parseNode after parseTagList
parseAfterTags(startOffset, preComment, tags) ==
    parseTagged(startOffset, preComment, tags, consumeWhitespaceAll(tags.ctx))

parseNode(ctx, preComment) ==
    parseAfterTags(offset(ctx), preComment, parseTagList(ctx, preComment))

\* Mutant: one parenthesis is enough
tagChecked_EitherParen(tagChildrenOffset, list) ==
    IF list.defined /\ {"HasParenLeft", "HasParenRight"} \cap list.flags = {}
    THEN error(list.ctx,
               <<"tag children can only be delimited using parentheses">>,
               tagChildrenOffset)
    ELSE list.ctx

\* The tag's parentheses check: the context it leaves
tagChecked(tagChildrenOffset, list) ==
    IF list.defined /\ ~({"HasParenLeft", "HasParenRight"} \subseteq list.flags)
    THEN error(list.ctx,
               <<"tag children can only be delimited using parentheses">>,
               tagChildrenOffset)
    ELSE list.ctx

tagNode(label, tagChildrenOffset, list, commentToken) ==
    [Node("Tag", label.string, label.rawString, tagChildrenOffset)
        EXCEPT !.flags = list.flags,
               !.comment = commentToken.string,
               !.children = orEmpty(list)]

\* The end of a round of parseTagList: the whitespace after the tag
parseTagEnd(result, i, ws) ==
    parseTagListLoop(ws.ctx, result, ws.comment, i + 1)

\* A round of parseTagList after the tag's children
parseTagChildren(result, commentToken, i, label, tagChildrenOffset, list) ==
    parseTagEnd(Append(result, tagNode(label, tagChildrenOffset, list, commentToken)),
                i, consumeWhitespaceAll(tagChecked(tagChildrenOffset, list)))

\* A round of parseTagList after "@", label being what consume(Label)
\* returned
parseTagLabel(ctx, result, commentToken, i, label) ==
    IF label.token = NoToken
    THEN [ctx |-> error(ctx, tagLabelError(ctx), offset(ctx)), nodes |-> result]
    ELSE parseTagChildren(result, commentToken, i, label.token,
                          offset(label.ctx), parseExplicitList(label.ctx))

\* A round of parseTagList, at being what consume returned for "@"
parseTag(ctx, result, commentToken, i, at) ==
    IF at.token = NoToken
    THEN [ctx |-> ctx, nodes |-> result]
    ELSE parseTagLabel(at.ctx, result, commentToken, i,
                       consume(at.ctx, Label, "any"))

parseTagListLoop(ctx, result, commentToken, i) ==
    IF i >= ForeverCap
    THEN [ctx |-> throw(ctx), nodes |-> result]
    ELSE parseTag(ctx, result, commentToken, i,
                  consume(ctx, {"Reserved"}, "isAt"))

\* Mutant: an unterminated list keeps the children parsed so far
parseCloser_KeepsChildren(openerOffset, opener, children, closer) ==
    IF closer.token = NoToken
    THEN [ctx |-> error(children.ctx, <<"List was not terminated">>,
                        openerOffset),
          defined |-> TRUE, children |-> children.nodes, flags |-> {}]
    ELSE [ctx |-> IF compatible(opener.string, closer.token.string)
                  THEN closer.ctx
                  ELSE error(closer.ctx,
                             pairError(opener.string, closer.token.string),
                             openerOffset),
          defined |-> TRUE,
          children |-> children.nodes,
          flags |-> openerFlag(opener.string)
                    \cup closerFlag(closer.token.string)]

\* parseExplicitList at the closer, closer being what consume returned
parseCloser(openerOffset, opener, children, closer) ==
    IF closer.token = NoToken
    THEN [ctx |-> error(children.ctx, <<"List was not terminated">>,
                        openerOffset),
          defined |-> FALSE, children |-> <<>>, flags |-> {}]
    ELSE [ctx |-> IF compatible(opener.string, closer.token.string)
                  THEN closer.ctx
                  ELSE error(closer.ctx,
                             pairError(opener.string, closer.token.string),
                             openerOffset),
          defined |-> TRUE,
          children |-> children.nodes,
          flags |-> openerFlag(opener.string)
                    \cup closerFlag(closer.token.string)]

\* parseExplicitList after the children
parseClosed(openerOffset, opener, children) ==
    parseCloser(openerOffset, opener, children,
                consume(children.ctx, {"Reserved"}, "isCloser"))

\* parseExplicitList at the opener, opener being what consume returned
parseOpener(ctx, opener) ==
    IF opener.token = NoToken
    THEN [ctx |-> ctx, defined |-> FALSE, children |-> <<>>, flags |-> {}]
    ELSE parseClosed(offset(ctx), opener.token,
                     parseExplicitChildren(opener.ctx))

parseExplicitList(ctx) ==
    parseOpener(ctx, consume(ctx, {"Reserved"}, "isOpener"))

\* "endDelimiter || this.done()"
atEnd(ctx) == check(ctx, {"Reserved"}, "isCloser") # NoToken \/ done(ctx)

\* parseExplicitChildren after its leading whitespace ws
parseFirstChild(ws) ==
    IF atEnd(ws.ctx)
    THEN [ctx |-> ws.ctx, nodes |-> <<>>]
    ELSE parseExplicitChildrenLoop(ws.ctx, <<>>, ws.comment, {}, 0)

parseExplicitChildren(ctx) == parseFirstChild(consumeWhitespaceAll(ctx))

\* The end of a round of parseExplicitChildren: the whitespace ws after
\* the separator
parseChildEnd(result, nextNodeFlags, i, ws) ==
    IF atEnd(ws.ctx)
    THEN [ctx |-> ws.ctx, nodes |-> result]
    ELSE parseExplicitChildrenLoop(ws.ctx, result, ws.comment, nextNodeFlags,
                                   i + 1)

\* A round of parseExplicitChildren at the separator, separator being what
\* consume returned
parseSeparator(result, node, nextNodeFlags, i, separator) ==
    parseChildEnd(
        Append(result,
               [node EXCEPT !.flags = @ \cup nextNodeFlags
                                \cup separatorFlags(separator.token.string).before]),
        separatorFlags(separator.token.string).after,
        i, consumeWhitespaceAll(separator.ctx))

\* A round of parseExplicitChildren, child being what parseNode returned
parseChild(result, nextNodeFlags, i, child) ==
    IF child.node = NoNode
    THEN [ctx |-> child.ctx, nodes |-> result]
    ELSE parseSeparator(result, child.node, nextNodeFlags, i,
                        consume(consumeWhitespaceAll(child.ctx).ctx,
                                {"Reserved"}, "isSeparator"))

parseExplicitChildrenLoop(ctx, result, commentToken, nextNodeFlags, i) ==
    IF i >= ForeverCap
    THEN [ctx |-> throw(ctx), nodes |-> result]
    ELSE parseChild(result, nextNodeFlags, i, parseNode(ctx, commentToken))

\* The end of a round of parseImplicitList: the whitespace ws after the node
parseImplicitEnd(result, i, ws) ==
    IF \/ check(ws.ctx, {"Reserved"}, "isSeparator") # NoToken
       \/ check(ws.ctx, {"Newline"}, "any") # NoToken
    THEN [ctx |-> consume(ws.ctx, AllTokens, "any").ctx, nodes |-> result]
    ELSE parseImplicitListLoop(ws.ctx, result, ws.comment, i + 1)

\* A round of parseImplicitList, child being what parseNode returned
parseImplicitChild(result, i, child) ==
    IF child.node = NoNode
    THEN [ctx |-> error(child.ctx, <<"expected a node">>, offset(child.ctx)),
          nodes |-> result]
    ELSE parseImplicitEnd(Append(result, child.node), i,
                          consumeWhitespaceLine(child.ctx))

parseImplicitListLoop(ctx, result, commentToken, i) ==
    IF i >= ForeverCap
    THEN [ctx |-> throw(ctx), nodes |-> result]
    ELSE parseImplicitChild(result, i, parseNode(ctx, commentToken))

\* The ParseResult, children being what parseExplicitChildren returned
ParseResult(source, children) ==
    IF children.ctx.thrown
    THEN [threw |-> TRUE, node |-> NoNode, errors |-> <<>>,
          remaining |-> <<>>]
    ELSE [threw |-> FALSE,
          node |-> [Node("File", <<>>, source, 0)
                       EXCEPT !.children = children.nodes],
          errors |-> children.ctx.errors,
          remaining |-> children.ctx.remaining]

\* const amt = 20 of fancyErrors
amt == 20

\* " ".repeat(n)
repeat(n) == [i \in 1..n |-> " "]

\* The template literal of fancyErrors, line by line
fancyLines(message, before, problem, after) ==
    << <<"ERROR: ">> \o message,
       <<" ", "|">>,
       <<" ", "|", " ">> \o before \o problem \o after,
       <<" ", "|", " ">> \o repeat(Len(before)) \o <<"^">>,
       <<" ", "|">>,
       <<>> >>

\* The callback of errors.map in fancyErrors
fancyError(source, err) ==
    fancyLines(err.message,
               sanitize(slice(source, err.offset - amt, err.offset)),
               sanitize(slice(source, err.offset, err.offset + 1)),
               sanitize(slice(source, err.offset + 1, err.offset + amt)))

\* ParseResult.fancyErrors()
fancyErrors(source, errors) ==
    [i \in DOMAIN errors |-> fancyError(source, errors[i])]

\* GenerateFlags.Tree; a GenerateFlags value is the set of the bits set
Tree == {"Tags", "TagArguments", "Children"}

\* validFlags of stringListFromNodeFlags
validFlags ==
    <<"HasParenLeft", "HasParenRight", "HasBracketLeft", "HasBracketRight",
      "HasBraceLeft", "HasBraceRight",
      "IsBeforeSemicolon", "IsAfterSemicolon", "IsBeforeComma", "IsAfterComma",
      "StringSingleQuote", "StringDoubleQuote", "StringTick", "StringTriplet",
      "Numeric", "Identifier", "StringLiteral", "Symbol">>

\* stringListFromNodeFlags(): the names of the flags set, in this order
stringListFromNodeFlags(flags) ==
    SelectSeq(validFlags, LAMBDA flagName : flagName \in flags)

\* Array.prototype.join("|"), each name being one piece of the text
RECURSIVE join(_)
join(names) ==
    IF names = <<>> THEN <<>>
    ELSE IF Len(names) = 1 THEN names
    ELSE <<names[1], "|">> \o join(Tail(names))

\* printIndent(): indentString, indent times
RECURSIVE printIndent(_, _)
printIndent(indent, indentString) ==
    IF indent <= 0 THEN <<>>
    ELSE indentString \o printIndent(indent - 1, indentString)

RECURSIVE debugDumpFromNode(_, _, _, _)

\* The loop over tag.children, from its i-th round
RECURSIVE dumpTagArguments(_, _, _, _)
dumpTagArguments(children, i, tagArgIndent, flags) ==
    IF i > Len(children) THEN <<>>
    ELSE (IF i > 1 THEN <<",", "\n">> ELSE <<>>)
         \o debugDumpFromNode(children[i], IF i = 1 THEN 0 ELSE tagArgIndent,
                              <<" ">>, flags)
         \o dumpTagArguments(children, i + 1, tagArgIndent, flags)

\* The body of the loop over node.tags
dumpTag(tag, indent, indentString, flags) ==
    printIndent(indent, indentString) \o <<"@">> \o tag.string
    \o (IF "TagArguments" \in flags /\ Len(tag.children) > 0
        THEN <<"(">>
             \o dumpTagArguments(tag.children, 1,
                                 indent + 1 + Len(tag.string) + 1, flags)
             \o <<")", "\n">>
        ELSE <<"\n">>)

\* The loop over node.tags, from its i-th round
RECURSIVE dumpTags(_, _, _, _, _)
dumpTags(tags, i, indent, indentString, flags) ==
    IF i > Len(tags) THEN <<>>
    ELSE dumpTag(tags[i], indent, indentString, flags)
         \o dumpTags(tags, i + 1, indent, indentString, flags)

\* The loop over node.children, from its i-th round
RECURSIVE dumpChildren(_, _, _, _, _)
dumpChildren(children, i, indent, indentString, flags) ==
    IF i > Len(children) THEN <<>>
    ELSE debugDumpFromNode(children[i], indent + 1, indentString, flags)
         \o <<",", "\n">>
         \o dumpChildren(children, i + 1, indent, indentString, flags)

\* The comment of the node
dumpComment(node, indent, indentString, flags) ==
    IF "Comments" \in flags /\ node.comment # <<>>
    THEN printIndent(indent, indentString) \o <<"/", "*", "\n">>
         \o printIndent(indent, indentString) \o node.comment \o <<"\n">>
         \o printIndent(indent, indentString) \o <<"*", "/", "\n">>
    ELSE <<>>

\* The kind and the flags of the node, each line being pieces of the text
dumpKindAndFlags(node, indent, indentString, flags) ==
    (IF "NodeKind" \in flags
     THEN printIndent(indent, indentString)
          \o <<"// kind: \"", node.kind, "\"\n">>
     ELSE <<>>)
    \o (IF "NodeFlags" \in flags
        THEN printIndent(indent, indentString) \o <<"// flags: \"">>
             \o join(stringListFromNodeFlags(node.flags)) \o <<"\"\n">>
        ELSE <<>>)

\* The name of the node
dumpName(node, indent, indentString) ==
    IF node.string = <<>> THEN <<>>
    ELSE IF node.kind = "File"
    THEN printIndent(indent, indentString) \o <<"TICK">> \o node.string
         \o <<"TICK">>
    ELSE printIndent(indent, indentString) \o node.string

\* The children list of the node
dumpChildrenList(node, indent, indentString, flags) ==
    IF "Children" \in flags /\ Len(node.children) > 0
    THEN (IF node.string # <<>> THEN <<":", "\n">> ELSE <<>>)
         \o printIndent(indent, indentString) \o <<"{", "\n">>
         \o dumpChildren(node.children, 1, indent, indentString, flags)
         \o printIndent(indent, indentString) \o <<"}">>
    ELSE <<>>

debugDumpFromNode(node, indent, indentString, flags) ==
    dumpComment(node, indent, indentString, flags)
    \o (IF "Tags" \in flags
        THEN dumpTags(node.tags, 1, indent, indentString, flags)
        ELSE <<>>)
    \o dumpKindAndFlags(node, indent, indentString, flags)
    \o dumpName(node, indent, indentString)
    \o dumpChildrenList(node, indent, indentString, flags)

\* parse(): the ParseResult (node, errors), or the exception of forever()
parse(source) ==
    ParseResult(source, parseExplicitChildren(ParseContext(source)))

----------------------------------------------------------------------------
(* The program: a client holds a source text and, as src/test.ts does,     *)
(* either tokenizes it with getToken, token by token, or parses it.        *)

VARIABLES
    source,     \* the text under test
    sample,     \* how source was put together (read by no action)
    tokenStr,   \* the text still to tokenize
    tokens,     \* the tokens getToken has returned so far, in order
    parsed,     \* what parse(source) returned, NotParsed before
    fancy,      \* what fancyErrors() returned, NotRendered before
    dump        \* what debugDumpFromNode returned, NotDumped before

vars == <<source, sample, tokenStr, tokens, parsed, fancy, dump>>

NotParsed == [threw |-> FALSE, node |-> NoNode, errors |-> <<>>,
              remaining |-> <<"not parsed">>]

NotRendered == <<"not rendered">>

NotDumped == <<"not dumped">>

\* Bounds of the model
MaxTextLen == 3
MaxTokens == 4
MaxKids == 2

RECURSIVE StringsUpTo(_, _)
StringsUpTo(alphabet, n) ==
    IF n = 0 THEN {<<>>}
    ELSE LET shorter == StringsUpTo(alphabet, n - 1)
         IN  shorter \cup {Append(t, c) : t \in shorter, c \in alphabet}

\* Family "text": every text over TextAlphabet of at most MaxTextLen characters
TextAlphabet == {"a", "1", "-", "/", "*", " ", "\n", "'", "\\",
                 "(", ")", ",", ";", ":"}

\* Family "example": the texts the tests of the repository parse (test/test.ts
\* and the test file of src/unnamed/part_000), and "a: b c"
Ex_EmptyBrace ==
    <<"{", "}">>
Ex_EmptyParen ==
    <<"(", ")">>
Ex_EmptyBracket ==
    <<"[", "]">>
Ex_BracketParen ==
    <<"[", ")">>
Ex_ParenBracket ==
    <<"(", "]">>
Ex_SimpleSet ==
    <<"{", "a", ",", " ", "b", ",", " ", "c", "}">>
Ex_NestedSimple ==
    <<"{", "a", " ", "b", ":", "{", "1", " ", "2", " ", "3", "}", " ", "c",
      "}">>
Ex_CodeLike ==
    <<"f", "o", "o", ":", " ", "{", " ", "(", "s", "i", "z", "e", ":", " ",
      "u", "6", "4", ")", " ", "-", ">", " ", "*", "v", "o", "i", "d", " ",
      "}">>
Ex_Range1 ==
    <<"(", "0", ",", " ", "1", "0", "0", ")">>
Ex_Range2 ==
    <<"(", "0", ",", " ", "1", "0", "0", "]">>
Ex_Range3 ==
    <<"[", "0", ",", " ", "1", "0", "0", ")">>
Ex_Range4 ==
    <<"[", "0", ",", " ", "1", "0", "0", "]">>
Ex_Range5 ==
    <<"{", "0", ",", " ", "1", "0", "0", "}">>
Ex_Separators ==
    <<"(", "a", " ", "b", ",", " ", "c", ";", " ", "d", ")">>
Ex_Numeric ==
    <<"1", "2", "3">>
Ex_NumericLong ==
    <<"1", "2", "3", "_", "4", "5", "6", "_", "7", "8", "9">>
Ex_Identifier ==
    <<"a", "b", "c">>
Ex_Symbol ==
    <<"+">>
Ex_Double ==
    <<"\"", "f", "o", "o", "\"">>
Ex_Single ==
    <<"'", "f", "o", "o", "'">>
Ex_Tick ==
    <<"TICK", "f", "o", "o", "TICK">>
Ex_DoubleTriplet ==
    <<"\"", "\"", "\"", "f", "o", "o", "\"", "\"", "\"">>
Ex_SingleTriplet ==
    <<"'", "'", "'", "f", "o", "o", "'", "'", "'">>
Ex_TickTriplet ==
    <<"TICK", "TICK", "TICK", "f", "o", "o", "TICK", "TICK", "TICK">>
Ex_ImplicitAtEnd ==
    <<"a", ":", " ", "b", " ", "c">>

Examples ==
    {Ex_EmptyBrace,
     Ex_EmptyParen,
     Ex_EmptyBracket,
     Ex_BracketParen,
     Ex_ParenBracket,
     Ex_SimpleSet,
     Ex_NestedSimple,
     Ex_CodeLike,
     Ex_Range1,
     Ex_Range2,
     Ex_Range3,
     Ex_Range4,
     Ex_Range5,
     Ex_Separators,
     Ex_Numeric,
     Ex_NumericLong,
     Ex_Identifier,
     Ex_Symbol,
     Ex_Double,
     Ex_Single,
     Ex_Tick,
     Ex_DoubleTriplet,
     Ex_SingleTriplet,
     Ex_TickTriplet,
     Ex_ImplicitAtEnd}

\* Family "list": one explicit list, anonymous or the children of a node x,
\* put together from an opener, at most MaxKids kids and a closer.  A kid
\* is its text, the label and the labels of the children (sub) it stands
\* for, and the gap that follows it; only the last gap may be empty.
Openers == {<<"(">>, <<"[">>, <<"{">>}
Closers == {<<")">>, <<"]">>, <<"}">>}

KidForms ==
    { [text |-> <<"a">>, label |-> <<"a">>, sub |-> <<>>],
      [text |-> <<"1", "2">>, label |-> <<"1", "2">>, sub |-> <<>>],
      [text |-> <<"'", "s", "'">>, label |-> <<"s">>, sub |-> <<>>],
      [text |-> <<"{", "b", " ", "-", "}">>, label |-> <<>>,
       sub |-> << <<"b">>, <<"-">> >>],
      [text |-> <<"b", ":", "(", "1", ")">>, label |-> <<"b">>,
       sub |-> << <<"1">> >>] }

Gaps == {<<" ">>, <<",">>, <<";", "\n">>}
LastGaps == {<<>>, <<",", " ">>}

Kid(form, gap) ==
    [text |-> form.text, label |-> form.label, sub |-> form.sub, gap |-> gap]

RECURSIVE Fronts(_)
Fronts(n) ==
    IF n = 0 THEN {<<>>}
    ELSE LET shorter == Fronts(n - 1)
         IN  shorter \cup {Append(f, Kid(k, g)) :
                              f \in shorter, k \in KidForms, g \in Gaps}

KidSeqs ==
    {<<>>} \cup {Append(f, Kid(k, g)) :
                    f \in Fronts(MaxKids - 1), k \in KidForms, g \in LastGaps}

ListSamples ==
    [family : {"list"}, named : BOOLEAN, open : Openers, close : Closers,
     kids : KidSeqs]

RECURSIVE RenderKids(_)
RenderKids(kids) ==
    IF kids = <<>> THEN <<>>
    ELSE kids[1].text \o kids[1].gap \o RenderKids(Tail(kids))

ListPrefix(s) == IF s.named THEN <<"x", ":", " ">> ELSE <<>>

Render(s) == ListPrefix(s) \o s.open \o RenderKids(s.kids) \o s.close

Init ==
    /\ \/ /\ source \in StringsUpTo(TextAlphabet, MaxTextLen)
          /\ sample = [family |-> "text"]
       \/ /\ source \in Examples
          /\ sample = [family |-> "example"]
       \/ /\ sample \in ListSamples
          /\ source = Render(sample)
    /\ tokenStr = source
    /\ tokens = <<>>
    /\ parsed = NotParsed
    /\ fancy = NotRendered
    /\ dump = NotDumped

\* One round of the loop "while (token = getToken(tokenStr))"
GetToken ==
    /\ parsed = NotParsed
    /\ Len(tokens) < MaxTokens
    /\ getToken(tokenStr) # NoToken
    /\ tokens' = Append(tokens, getToken(tokenStr))
    /\ tokenStr' = getToken(tokenStr).remaining
    /\ UNCHANGED <<source, sample, parsed, fancy, dump>>

Parse ==
    /\ parsed = NotParsed
    /\ tokens = <<>>
    /\ parsed' = parse(source)
    /\ UNCHANGED <<source, sample, tokenStr, tokens, fancy, dump>>

\* result.fancyErrors() on the ParseResult that parse returned
FancyErrors ==
    /\ parsed # NotParsed
    /\ ~parsed.threw
    /\ fancy = NotRendered
    /\ fancy' = fancyErrors(source, parsed.errors)
    /\ UNCHANGED <<source, sample, tokenStr, tokens, parsed, dump>>

\* debugDumpFromNode(parsed.node, 0, "  ", GenerateFlags.Tree)
DebugDump ==
    /\ parsed # NotParsed
    /\ ~parsed.threw
    /\ dump = NotDumped
    /\ dump' = debugDumpFromNode(parsed.node, 0, <<" ", " ">>, Tree)
    /\ UNCHANGED <<source, sample, tokenStr, tokens, parsed, fancy>>

Next == GetToken \/ Parse \/ FancyErrors \/ DebugDump

Spec == Init /\ [][Next]_vars

----------------------------------------------------------------------------
(* Vocabulary of the properties *)

Parsed == parsed # NotParsed /\ ~parsed.threw
Root == parsed.node
Top == parsed.node.children

\* A node, its tags, its children, and theirs
RECURSIVE NodesIn(_)
NodesIn(n) ==
    {n} \cup UNION {NodesIn(n.children[i]) : i \in DOMAIN n.children}
        \cup UNION {NodesIn(n.tags[i]) : i \in DOMAIN n.tags}

LabelsOf(nodes) == [i \in DOMAIN nodes |-> nodes[i].string]
Last(seq) == seq[Len(seq)]

OpenerFlags == {"HasParenLeft", "HasBracketLeft", "HasBraceLeft"}
CloserFlags == {"HasParenRight", "HasBracketRight", "HasBraceRight"}

\* The flag a delimiter character stands for, as the specification names it
FlagOfDelimiter(c) ==
    CASE c = "(" -> "HasParenLeft"    [] c = ")" -> "HasParenRight"
      [] c = "[" -> "HasBracketLeft"  [] c = "]" -> "HasBracketRight"
      [] c = "{" -> "HasBraceLeft"    [] c = "}" -> "HasBraceRight"

SamePair(s) ==
    <<s.open[1], s.close[1]>> \in {<<"(", ")">>, <<"[", "]">>, <<"{", "}">>}

\* "(" and "[" go with ")" and "]"; "{" goes with "}"
Accepted(s) ==
    \/ s.open[1] \in {"(", "["} /\ s.close[1] \in {")", "]"}
    \/ s.open[1] = "{" /\ s.close[1] = "}"

\* A single top-level node with the given label and children labels
SingleNode(label, kids) ==
    /\ Len(Top) = 1
    /\ Top[1].string = label
    /\ LabelsOf(Top[1].children) = kids

\* The list of a "list" sample came out as the node it describes
ListAsDescribed ==
    /\ SingleNode(IF sample.named THEN <<"x">> ELSE <<>>,
                  [i \in DOMAIN sample.kids |-> sample.kids[i].label])
    /\ \A i \in DOMAIN sample.kids :
          LabelsOf(Top[1].children[i].children) = sample.kids[i].sub

----------------------------------------------------------------------------
(* The properties *)

\* C1: for a non-empty text, getToken returns a token whose rawString is a
\* non-empty prefix of the text and whose remaining is the rest of it, so
\* tokenizing the remainder again and again leaves no gap, no overlap and
\* no zero-length token.
C1_TokenPartition ==
    \A i \in DOMAIN tokens :
        LET text == IF i = 1 THEN source ELSE tokens[i - 1].remaining
        IN  /\ tokens[i].rawString # <<>>
            /\ tokens[i].rawString \o tokens[i].remaining = text

\* C2: an explicit list with a matching opener and closer, holding n >= 0
\* label nodes (or nested explicit lists) separated by whitespace and/or a
\* single comma or semicolon, parses to one node with exactly those
\* children in order, and no error is recorded.
C2_ExplicitListChildren ==
    Parsed =>
      /\ ( /\ sample.family = "list"
           /\ SamePair(sample)
           /\ sample.kids # <<>> => Last(sample.kids).gap = <<>> )
         => parsed.errors = <<>> /\ ListAsDescribed
      /\ source \in {Ex_EmptyBrace, Ex_EmptyParen, Ex_EmptyBracket}
         => parsed.errors = <<>> /\ SingleNode(<<>>, <<>>)
      /\ source = Ex_SimpleSet
         => parsed.errors = <<>>
            /\ SingleNode(<<>>, << <<"a">>, <<"b">>, <<"c">> >>)
      /\ source = Ex_NestedSimple
         => parsed.errors = <<>>
            /\ SingleNode(<<>>, << <<"a">>, <<"b">>, <<"c">> >>)
            /\ LabelsOf(Top[1].children[2].children)
                 = << <<"1">>, <<"2">>, <<"3">> >>

C2_Witness ==
    /\ Parsed
    /\ sample.family = "list"
    /\ SamePair(sample)
    /\ Len(sample.kids) = 2
    /\ sample.kids[1].sub # <<>>
    /\ sample.kids[1].gap = <<";", "\n">>
    /\ sample.kids[2].gap = <<>>
    /\ Len(Top[1].children) = 2

\* C3: "(" or "[" with ")" or "]", and "{" with "}", record no error; every
\* other pairing records exactly one "cannot be used together" error at the
\* offset of the opener, and the list still has its children and the flags
\* of the opener and closer that were there.
C3_PairingRule ==
    (Parsed /\ sample.family = "list") =>
      /\ ListAsDescribed
      /\ Top[1].flags \cap MaskSetDelimiters
           = {FlagOfDelimiter(sample.open[1]), FlagOfDelimiter(sample.close[1])}
      /\ IF Accepted(sample)
         THEN parsed.errors = <<>>
         ELSE /\ Len(parsed.errors) = 1
              /\ parsed.errors[1].offset = Len(ListPrefix(sample))
              /\ parsed.errors[1].message
                   = <<"\"", sample.open[1], "\" and \"", sample.close[1],
                       "\" cannot be used together">>

C3_Witness ==
    /\ Parsed
    /\ sample.family = "list"
    /\ sample.named
    /\ sample.open = <<"{">> /\ sample.close = <<"]">>
    /\ Len(sample.kids) = 2
    /\ Len(parsed.errors) = 1
    /\ Len(Top[1].children) = 2

\* C4 as stated: "[)" and "(]" each parse to a single node with an empty
\* string and no children, and each records exactly one error.
C4_OneErrorAsStated ==
    (Parsed /\ source \in {Ex_BracketParen, Ex_ParenBracket}) =>
      SingleNode(<<>>, <<>>) /\ Len(parsed.errors) = 1

\* C4 as amended: "[)" and "(]" each parse to a single node with an empty
\* string and no children, and record no error.
C4_NoError ==
    (Parsed /\ source \in {Ex_BracketParen, Ex_ParenBracket}) =>
      SingleNode(<<>>, <<>>) /\ parsed.errors = <<>>

C4_Witness ==
    /\ Parsed
    /\ source = Ex_ParenBracket
    /\ Len(Top) = 1
    /\ Top[1].flags = {"HasParenLeft", "HasBracketRight"}

\* C5: a node whose children come from a terminated explicit list holds
\* exactly one opener flag and one closer flag, those of the literal
\* opener and closer, and no other set-delimiter flag; the pairings "()",
\* "(]", "[)", "[]" and "{}" record no error.
C5_DelimiterFlags ==
    Parsed =>
      /\ \A n \in NodesIn(Root) :
            LET d == n.flags \cap MaskSetDelimiters
            IN  d # {} =>
                  /\ Cardinality(d \cap OpenerFlags) = 1
                  /\ Cardinality(d \cap CloserFlags) = 1
                  /\ n.kind = "Main" =>
                        d \cap CloserFlags = {FlagOfDelimiter(Last(n.rawString))}
      /\ sample.family = "list" =>
            /\ Top[1].flags \cap MaskSetDelimiters
                 = {FlagOfDelimiter(sample.open[1]),
                    FlagOfDelimiter(sample.close[1])}
            /\ Accepted(sample) => parsed.errors = <<>>
      /\ \A e \in {Ex_Range1, Ex_Range2, Ex_Range3, Ex_Range4, Ex_Range5} :
            source = e =>
               /\ parsed.errors = <<>>
               /\ Top[1].flags \cap MaskSetDelimiters
                    = {FlagOfDelimiter(e[1]), FlagOfDelimiter(Last(e))}

C5_Witness ==
    /\ Parsed
    /\ sample.family = "list"
    /\ sample.open = <<"(">> /\ sample.close = <<"]">>
    /\ sample.kids # <<>>
    /\ Top[1].flags = {"HasParenLeft", "HasBracketRight"}
    /\ parsed.errors = <<>>

\* The separator flags a gap gives the node before it and the node after it
BeforeFlags(gap) ==
    {f \in {"IsBeforeComma"} : \E i \in DOMAIN gap : gap[i] = ","}
    \cup {f \in {"IsBeforeSemicolon"} : \E i \in DOMAIN gap : gap[i] = ";"}
AfterFlags(gap) ==
    {f \in {"IsAfterComma"} : \E i \in DOMAIN gap : gap[i] = ","}
    \cup {f \in {"IsAfterSemicolon"} : \E i \in DOMAIN gap : gap[i] = ";"}

\* C6: of two consecutive children of an explicit list, the first has
\* IsBeforeComma exactly when the list consumed a "," between them, and
\* exactly then the second has IsAfterComma; likewise ";" with
\* IsBeforeSemicolon and IsAfterSemicolon; no separator on a side means no
\* separator flag for that side, and the first child has no IsAfter flag.
C6_SeparatorFlags ==
    Parsed =>
      /\ \A n \in NodesIn(Root) : \A i \in DOMAIN n.children :
            LET c == n.children[i].flags
            IN  /\ i = 1 => c \cap {"IsAfterComma", "IsAfterSemicolon"} = {}
                /\ Cardinality(c \cap {"IsBeforeComma", "IsBeforeSemicolon"}) <= 1
                /\ Cardinality(c \cap {"IsAfterComma", "IsAfterSemicolon"}) <= 1
                /\ i < Len(n.children) =>
                     LET d == n.children[i + 1].flags
                     IN  /\ "IsBeforeComma" \in c <=> "IsAfterComma" \in d
                         /\ "IsBeforeSemicolon" \in c <=> "IsAfterSemicolon" \in d
      /\ sample.family = "list" =>
            /\ Len(Top[1].children) = Len(sample.kids)
            /\ \A i \in DOMAIN sample.kids :
                  Top[1].children[i].flags \cap MaskSeparators
                    = BeforeFlags(sample.kids[i].gap)
                      \cup (IF i = 1 THEN {}
                            ELSE AfterFlags(sample.kids[i - 1].gap))
      /\ source = Ex_Separators =>
            /\ SingleNode(<<>>, << <<"a">>, <<"b">>, <<"c">>, <<"d">> >>)
            /\ [i \in 1..4 |-> Top[1].children[i].flags \cap MaskSeparators]
                 = << {}, {"IsBeforeComma"},
                      {"IsAfterComma", "IsBeforeSemicolon"},
                      {"IsAfterSemicolon"} >>

C6_Witness ==
    /\ Parsed
    /\ sample.family = "list"
    /\ Len(sample.kids) = 2
    /\ sample.kids[1].gap = <<";", "\n">>
    /\ sample.kids[2].gap = <<",", " ">>
    /\ Top[1].children[1].flags \cap MaskSeparators = {"IsBeforeSemicolon"}
    /\ Top[1].children[2].flags \cap MaskSeparators
         = {"IsAfterSemicolon", "IsBeforeComma"}

\* The label token of a node without tags is the first token of its text
LabelToken(n) == getToken(n.rawString)
Labelled(n) ==
    n.kind \in {"Main", "Tag"} /\ n.tags = <<>> /\ LabelToken(n).kind \in Label

\* C7: every node parsed from a label token carries exactly one flag of the
\* label-kind group, the one of the kind of its label token.
C7_LabelKindFlag ==
    Parsed =>
      \A n \in NodesIn(Root) :
         Labelled(n) => n.flags \cap MaskLabelKind = {LabelToken(n).kind}

\* C8: every node whose label is a string literal carries exactly one
\* quote-family flag, the one of its delimiter, and StringTriplet exactly
\* when the literal is triple-delimited.
C8_StringFlags ==
    Parsed =>
      \A n \in NodesIn(Root) :
         (Labelled(n) /\ LabelToken(n).kind = "StringLiteral") =>
            LET raw == LabelToken(n).rawString
                quote == CASE raw[1] = "'" -> "StringSingleQuote"
                           [] raw[1] = "\"" -> "StringDoubleQuote"
                           [] raw[1] = "TICK" -> "StringTick"
                triple == Len(raw) >= 6 /\ raw[2] = raw[1] /\ raw[3] = raw[1]
            IN  n.flags \cap MaskStringDelimiters
                  = {quote} \cup (IF triple THEN {"StringTriplet"} ELSE {})

\* C9: an implicit list inside an explicit list, whose last node is directly
\* followed by the closer of that list, ends there without an error:
\* "foo: { (size: u64) -> *void }" gives foo with the children "", "->",
\* "*", "void", the first with the single child size, which has the single
\* child u64, and no error.
C9_ImplicitListBeforeCloser ==
    (Parsed /\ source = Ex_CodeLike) =>
      /\ SingleNode(<<"f", "o", "o">>,
                    << <<>>, <<"-", ">">>, <<"*">>, <<"v", "o", "i", "d">> >>)
      /\ LabelsOf(Top[1].children[1].children) = << <<"s", "i", "z", "e">> >>
      /\ LabelsOf(Top[1].children[1].children[1].children)
           = << <<"u", "6", "4">> >>
      /\ parsed.errors = <<>>

\* C10: the end of the input ends an implicit list: "a: b c" gives a with
\* the children b and c, and no error is recorded.
C10_ImplicitListAtEnd ==
    (Parsed /\ source = Ex_ImplicitAtEnd) =>
      /\ SingleNode(<<"a">>, << <<"b">>, <<"c">> >>)
      /\ parsed.errors = <<>>

----------------------------------------------------------------------------
(* Documents with a fault *)

\* Family "open": an explicit list that is never closed, anonymous or the
\* children of a node x: after the kids the text ends, or goes on with a
\* token that is no closer.
Ends == {<<>>, <<":">>}

OpenSamples ==
    [family : {"open"}, named : BOOLEAN, open : Openers, kids : KidSeqs,
     end : Ends]

RenderOpen(s) == ListPrefix(s) \o s.open \o RenderKids(s.kids) \o s.end

NotTerminated == <<"List was not terminated">>

\* The offsets of the recorded errors with the given message, in order
RECURSIVE OffsetsOf(_, _)
OffsetsOf(errors, message) ==
    IF errors = <<>> THEN <<>>
    ELSE (IF errors[1].message = message THEN <<errors[1].offset>> ELSE <<>>)
         \o OffsetsOf(Tail(errors), message)

ErrorAt(message, at) ==
    \E i \in DOMAIN parsed.errors :
        parsed.errors[i] = [message |-> message, offset |-> at]

\* C11: an explicit list whose opener was consumed and whose children are
\* not followed by a closer records one "List was not terminated" error at
\* the opener's offset and yields no children at all, so the node that owns
\* the list has zero children (and no delimiter flag).
C11_ListNotTerminated ==
    Parsed =>
      /\ sample.family = "open" =>
           /\ OffsetsOf(parsed.errors, NotTerminated)
                = <<Len(ListPrefix(sample))>>
           /\ Len(Top) = 1
           /\ Top[1].string = (IF sample.named THEN <<"x">> ELSE <<>>)
           /\ Top[1].children = <<>>
           /\ Top[1].flags \cap MaskSetDelimiters = {}
      /\ \A i \in DOMAIN parsed.errors :
           parsed.errors[i].message = NotTerminated =>
             /\ <<source[parsed.errors[i].offset + 1]>> \in Openers
             /\ \A n \in NodesIn(Root) :
                  ( /\ n.kind = "Main" /\ n.string = <<>> /\ n.tags = <<>>
                    /\ n.offset = parsed.errors[i].offset )
                  => n.children = <<>>

C11_Witness ==
    /\ Parsed
    /\ sample.family = "open"
    /\ Len(sample.kids) = 2
    /\ sample.end = <<>>
    /\ sample.named
    /\ ErrorAt(NotTerminated, 3)
    /\ Top[1].children = <<>>

\* Family "implicit": the document "{a: <prior> <fault>} d", where a owns an
\* implicit list of one or two nodes and fault is a token no node can start
\* with, or nothing
Faults == {<<":">>, <<"#">>}

Priors == { << <<"b">> >>, << <<"b">>, <<"c">> >> }

ImplicitSamples == [family : {"implicit"}, prior : Priors, fault : Faults \cup {<<>>}]

RECURSIVE Spaced(_)
Spaced(labels) ==
    IF labels = <<>> THEN <<>>
    ELSE labels[1] \o <<" ">> \o Spaced(Tail(labels))

RenderImplicit(s) ==
    <<"{", "a", ":", " ">> \o Spaced(s.prior) \o s.fault \o <<"}", " ", "d">>

\* The node labels of what parse returns for the sample without its fault:
\* of the top level, of the explicit list, of the implicit list
TreeLabels(result) ==
    [top |-> LabelsOf(result.node.children),
     explicit |-> LabelsOf(result.node.children[1].children),
     implicit |-> LabelsOf(result.node.children[1].children[1].children)]

WithoutFault(s) == parse(RenderImplicit([s EXCEPT !.fault = <<>>]))

\* C12: a node that fails to parse inside an implicit list truncates that
\* list only: the nodes parsed before it are kept, and the enclosing
\* explicit list and the later top-level nodes come out as they do without
\* the fault.
C12_ImplicitFaultContained ==
    (Parsed /\ sample.family = "implicit") =>
      /\ Len(Top) = 2
      /\ Len(Top[1].children) = 1
      /\ LabelsOf(Top[1].children[1].children) = sample.prior
      /\ TreeLabels(parsed) = TreeLabels(WithoutFault(sample))

\* Family "tag": the document "@t<list> x", where the tag t has an explicit
\* list of arguments right after its label, or none
TagKids == {k \in KidSeqs : \A i \in DOMAIN k : k[i].gap \in {<<" ">>, <<>>}}

TagSamples ==
    [family : {"tag"}, list : {TRUE}, open : Openers, close : Closers,
     kids : TagKids]
    \cup [family : {"tag"}, list : {FALSE}, open : {<<>>}, close : {<<>>},
          kids : {<<>>}]

RenderTag(s) ==
    <<"@", "t">> \o s.open \o RenderKids(s.kids) \o s.close \o <<" ", "x">>

NotParenthesized == <<"tag children can only be delimited using parentheses">>

TagsIn(n) == {t \in NodesIn(n) : t.kind = "Tag"}

ParenPair == {"HasParenLeft", "HasParenRight"}

\* C14: a tag whose argument list was parsed but is not delimited by "("
\* and ")" records "tag children can only be delimited using parentheses"
\* at the offset where the list starts, and the tag is still in the tag
\* list of its node, with the parsed children; a tag with a "(" ... ")"
\* list, or with no list, records no such error.
C14_TagParentheses ==
    Parsed =>
      /\ sample.family = "tag" =>
           /\ LabelsOf(Top) = << <<"x">> >>
           /\ LabelsOf(Top[1].tags) = << <<"t">> >>
           /\ LabelsOf(Top[1].tags[1].children)
                = [i \in DOMAIN sample.kids |-> sample.kids[i].label]
           /\ OffsetsOf(parsed.errors, NotParenthesized)
                = (IF sample.list /\ <<sample.open, sample.close>>
                                       # << <<"(">>, <<")">> >>
                   THEN <<2>> ELSE <<>>)
      /\ \A t \in TagsIn(Root) :
           ErrorAt(NotParenthesized, t.offset)
             <=> (t.flags \cap MaskSetDelimiters) \notin {{}, ParenPair}

C14_Witness ==
    /\ Parsed
    /\ sample.family = "tag"
    /\ sample.open = <<"(">>
    /\ sample.close = <<"]">>
    /\ Len(sample.kids) = 2
    /\ ErrorAt(NotParenthesized, 2)
    /\ Len(Top[1].tags[1].children) = 2

\* Family "comment": the document "<lead><comments><tail>b", where the
\* whitespace before the node b holds one or two comments, the last of
\* them "c".  b is the first node, the sibling of a (with the separator
\* before or after the comments, or with none), an implicit child after a,
\* or the label after the tag list "@t".
Comments ==
    { <<"/", "*", "c", "*", "/">>,
      <<"/", "*", "d", "*", "/", " ", "/", "*", "c", "*", "/">>,
      <<"/", "/", "d", "\n", "/", "*", "c", "*", "/">> }

Leads ==
    { <<>>, <<"a", " ">>, <<"a", ",", " ">>, <<"x", ":", " ", "a", " ">>,
      <<"@", "t", " ">> }

CommentSamples ==
    [family : {"comment"}, lead : Leads, comments : Comments, tail : {<<" ">>}]
    \cup [family : {"comment"}, lead : {<<"a", " ">>}, comments : Comments,
          tail : {<<",", " ">>}]

RenderComment(s) == s.lead \o s.comments \o s.tail \o <<"b">>

\* C15: when Comment tokens stand in the whitespace right before a node
\* (after the previous sibling, with or without a separator, or between
\* the tag list and the label), the node's comment is the string of the
\* last of them.
C15_PreComment ==
    (Parsed /\ sample.family = "comment") =>
      \E n \in NodesIn(Root) : n.string = <<"b">> /\ n.comment = <<"c">>

\* Family "adjacent": "a: <first><between><second>" and a newline, the two
\* nodes being a word, a string, a symbol or a number, with a space or
\* nothing between them
AdjacentLabels == {<<"b">>, <<"'", "c", "'">>, <<"+">>, <<"1">>}
AdjacentSamples ==
    [family : {"adjacent"}, first : AdjacentLabels, second : AdjacentLabels,
     between : {<<>>, <<" ">>}]

RenderAdjacent(s) ==
    <<"a", ":", " ">> \o s.first \o s.between \o s.second \o <<"\n">>

\* The second node starts right where the first ends
Adjoin(first, second) == second.offset = first.offset + Len(first.rawString)

\* C20: when two consecutive nodes of an implicit list have nothing between
\* them, a grammar error is recorded.
C20_AdjacentNodes ==
    (/\ parsed # NotParsed
     /\ sample.family = "adjacent"
     /\ Len(parsed.node.children) = 1
     /\ Len(parsed.node.children[1].children) = 2
     /\ Adjoin(parsed.node.children[1].children[1],
               parsed.node.children[1].children[2]))
      => parsed.errors # <<>>

\* The faulty documents: every text over FaultAlphabet of at most MaxTextLen
\* characters, and the families above
FaultAlphabet == {"a", "(", ")", "{", "@", ":", ",", " ", "\n", "/"}

InitFaults ==
    /\ \/ /\ source \in StringsUpTo(FaultAlphabet, MaxTextLen)
          /\ sample = [family |-> "text"]
       \/ /\ sample \in OpenSamples
          /\ source = RenderOpen(sample)
       \/ /\ sample \in ImplicitSamples
          /\ source = RenderImplicit(sample)
       \/ /\ sample \in TagSamples
          /\ source = RenderTag(sample)
       \/ /\ sample \in CommentSamples
          /\ source = RenderComment(sample)
       \/ /\ sample \in AdjacentSamples
          /\ source = RenderAdjacent(sample)
    /\ tokenStr = source
    /\ tokens = <<>>
    /\ parsed = NotParsed
    /\ fancy = NotRendered
    /\ dump = NotDumped

SpecFaults == InitFaults /\ [][Next]_vars

----------------------------------------------------------------------------
(* Long documents *)

\* Family "run": a run of newlines, one short of the cap of forever() or
\* as long as the cap
RunSamples == [family : {"run"}, count : {ForeverCap - 1, ForeverCap}]

RenderRun(s) == [i \in 1..s.count |-> "\n"]

RunAlphabet == {"a", " ", "\n"}

InitCap ==
    /\ \/ /\ source \in StringsUpTo(RunAlphabet, MaxTextLen)
          /\ sample = [family |-> "text"]
       \/ /\ sample \in RunSamples
          /\ source = RenderRun(sample)
    /\ tokenStr = source
    /\ tokens = <<>>
    /\ parsed = NotParsed
    /\ fancy = NotRendered
    /\ dump = NotDumped

SpecCap == InitCap /\ [][Next]_vars

\* C13: whatever the input, parse returns a ParseResult whose root is of
\* kind File and does not abort with the exception of forever(): no loop
\* reaches the cap.
C13_NeverAborts ==
    parsed # NotParsed => ~parsed.threw /\ parsed.node.kind = "File"

----------------------------------------------------------------------------
(* The lexer on labels *)

\* Every text over LexAlphabet of at most MaxTextLen characters ("BEL"
\* stands for the character U+0007, which is in no character class), and
\* the words of the test "Lexer"
LexAlphabet == {"a", "e", "E", "_", "1", "-", "+", ".", ":", "BEL", " "}

Lex_NumericThenLetters ==
    <<"1", "2", "3", "a", "b", "c">>
Lex_NumericUnderscore ==
    <<"1", "2", "3", "_", "4", "5", "6">>
Lex_LettersThenNumeric ==
    <<"a", "b", "c", "1", "2", "3">>
Lex_Symbols ==
    <<"+", "-", "*">>

LexExamples ==
    {Lex_NumericThenLetters, Lex_NumericUnderscore, Lex_LettersThenNumeric,
     Lex_Symbols}

\* Family "literal": a string literal with each quote, single or triple,
\* closed or not, then a space and a label.  The body has a letter, the
\* double quote, a backslash and a newline.
Quotes == {"\"", "'", "TICK"}
LiteralBodies == StringsUpTo({"a", "\"", "\\", "\n"}, MaxTextLen)
LiteralSamples ==
    [family : {"literal"}, delim : Quotes, triplet : BOOLEAN,
     body : LiteralBodies, closed : BOOLEAN]

Delimiter(d, triplet) == IF triplet THEN <<d, d, d>> ELSE <<d>>

RenderLiteral(s) ==
    Delimiter(s.delim, s.triplet) \o s.body
    \o (IF s.closed THEN Delimiter(s.delim, s.triplet) ELSE <<>>)
    \o <<" ", "a">>

\* Family "remark": a line comment, or a block comment closed or not, then
\* a newline and a label.  The body has a letter, "/", "*" and a newline.
RemarkBodies == StringsUpTo({"a", "/", "*", "\n"}, MaxTextLen + 1)
RemarkSamples ==
    [family : {"remark"}, form : {"line", "block", "open"}, body : RemarkBodies]

RenderRemark(s) ==
    (IF s.form = "line" THEN <<"/", "/">> ELSE <<"/", "*">>)
    \o s.body
    \o (IF s.form = "block" THEN <<"*", "/">> ELSE <<>>)
    \o <<"\n", "a">>

InitLex ==
    /\ \/ /\ source \in StringsUpTo(LexAlphabet, MaxTextLen)
          /\ sample = [family |-> "text"]
       \/ /\ source \in LexExamples
          /\ sample = [family |-> "example"]
       \/ /\ sample \in LiteralSamples
          /\ source = RenderLiteral(sample)
       \/ /\ sample \in RemarkSamples
          /\ source = RenderRemark(sample)
    /\ tokenStr = source
    /\ tokens = <<>>
    /\ parsed = NotParsed
    /\ fancy = NotRendered
    /\ dump = NotDumped

SpecLex == InitLex /\ [][Next]_vars

\* The text getToken was given for the i-th token
TextOf(i) == IF i = 1 THEN source ELSE tokens[i - 1].remaining

MaxOf(S) == CHOOSE m \in S : \A k \in S : k <= m

\* The lengths n such that the first n characters of s match
\* [A-Za-z_][A-Za-z0-9_]*
IdentifierLengths(s) ==
    {n \in 1..Len(s) : s[1] \in IdentStart /\ \A i \in 2..n : s[i] \in IdentPart}

\* s[from+1 .. to] matches ([eE][+-]|[A-Za-z0-9._])*
RECURSIVE MatchesNumericBody(_, _, _)
MatchesNumericBody(s, from, to) ==
    \/ from = to
    \/ /\ from + 2 <= to
       /\ s[from + 1] \in {"e", "E"} /\ s[from + 2] \in {"+", "-"}
       /\ MatchesNumericBody(s, from + 2, to)
    \/ /\ from + 1 <= to
       /\ s[from + 1] \in NumericPart
       /\ MatchesNumericBody(s, from + 1, to)

\* The lengths n such that the first n characters of s match
\* -?[0-9]([eE][+-]|[A-Za-z0-9._])*
NumericLengths(s) ==
    {n \in 1..Len(s) :
        \/ s[1] \in Digit /\ MatchesNumericBody(s, 1, n)
        \/ n >= 2 /\ s[1] = "-" /\ s[2] \in Digit /\ MatchesNumericBody(s, 2, n)}

\* The lengths of the runs of unreserved symbol characters s starts with
SymbolLengths(s) ==
    {n \in 1..Len(s) : \A i \in 1..n : s[i] \in UnreservedSymbols}

\* The kind and the length the rule gives for s
Classified(s) ==
    IF IdentifierLengths(s) # {}
    THEN [kind |-> "Identifier", len |-> MaxOf(IdentifierLengths(s))]
    ELSE IF NumericLengths(s) # {}
    THEN [kind |-> "Numeric", len |-> MaxOf(NumericLengths(s))]
    ELSE IF SymbolLengths(s) # {}
    THEN [kind |-> "Symbol", len |-> MaxOf(SymbolLengths(s))]
    ELSE IF s[1] \in ReservedSymbols
    THEN [kind |-> "Reserved", len |-> 1]
    ELSE [kind |-> "BadCharacter", len |-> 1]

DefaultRule(s) ==
    s[1] \notin {"\n", "/", "\"", "'", "TICK"} \cup SpaceChars

\* C16: for a text that the default rule handles, getToken gives, in this
\* priority, an Identifier for the longest prefix matching
\* [A-Za-z_][A-Za-z0-9_]*, else a Numeric for the longest prefix matching
\* -?[0-9]([eE][+-]|[A-Za-z0-9._])*, else a Symbol for the longest run of
\* unreserved symbol characters, else a Reserved of one character, else a
\* BadCharacter of one character.
C16_DefaultRule ==
    /\ \A i \in DOMAIN tokens :
         DefaultRule(TextOf(i)) =>
           /\ tokens[i].kind = Classified(TextOf(i)).kind
           /\ tokens[i].rawString
                = SubSeq(TextOf(i), 1, Classified(TextOf(i)).len)
           /\ tokens[i].string = tokens[i].rawString
    /\ (source \in LexExamples /\ tokens # <<>>) =>
         /\ tokens[1].string = source
         /\ tokens[1].kind
              = (CASE source = Lex_LettersThenNumeric -> "Identifier"
                   [] source = Lex_Symbols -> "Symbol"
                   [] OTHER -> "Numeric")

C16_Witness ==
    /\ Len(tokens) = 1
    /\ source = <<"1", "e", "+">>
    /\ tokens[1].kind = "Numeric"
    /\ tokens[1].rawString = <<"1", "e", "+">>

\* The text of the i-th token starts with three equal characters
TripleDelimited(i) ==
    /\ Len(TextOf(i)) >= 3
    /\ TextOf(i)[2] = TextOf(i)[1]
    /\ TextOf(i)[3] = TextOf(i)[1]

\* C17: the rawString of a StringLiteral token is d + string + d, d being
\* the quote the text starts with, once or (when the text starts with three
\* of them) three times, and string a run of the source as it stands; the
\* rawString of a line comment is "//" + string; the rawString of a closed
\* block comment is "/*" + string + "*/".
C17_RawString ==
    \A i \in DOMAIN tokens :
      /\ tokens[i].kind = "StringLiteral" =>
           /\ TextOf(i)[1] \in Quotes
           /\ tokens[i].rawString
                = Delimiter(TextOf(i)[1], TripleDelimited(i))
                  \o tokens[i].string
                  \o Delimiter(TextOf(i)[1], TripleDelimited(i))
           /\ tokens[i].rawString = SubSeq(TextOf(i), 1, Len(tokens[i].rawString))
      /\ (tokens[i].kind = "Comment" /\ SubSeq(TextOf(i), 1, 2) = <<"/", "/">>) =>
           tokens[i].rawString = <<"/", "/">> \o tokens[i].string
      /\ (tokens[i].kind = "Comment" /\ SubSeq(TextOf(i), 1, 2) = <<"/", "*">>) =>
           tokens[i].rawString
             = <<"/", "*">> \o tokens[i].string \o <<"*", "/">>

\* A triple-delimited literal with an escaped quote has been lexed
C17_Witness ==
    /\ Len(tokens) = 1
    /\ tokens[1].kind = "StringLiteral"
    /\ tokens[1].string = <<"a", "\\", "\"">>
    /\ Len(tokens[1].rawString) = 9

----------------------------------------------------------------------------
(* Error windows *)

\* Family "window": lead filler characters, a colon where a label is
\* expected, and a label of tail letters.  The lengths are around amt.
Fillers == {" ", "\n", "\t"}
Around == {0, 1, amt - 1, amt, amt + 1}
WindowSamples ==
    [family : {"window"}, fill : Fillers, lead : Around, tail : Around]

RenderWindow(s) ==
    [i \in 1..s.lead |-> s.fill] \o <<":">> \o [i \in 1..s.tail |-> "a"]

WindowAlphabet == {"a", ":", "}", "\n", "\t"}

InitWindow ==
    /\ \/ /\ source \in StringsUpTo(WindowAlphabet, MaxTextLen)
          /\ sample = [family |-> "text"]
       \/ /\ sample \in WindowSamples
          /\ source = RenderWindow(sample)
    /\ tokenStr = source
    /\ tokens = <<>>
    /\ parsed = NotParsed
    /\ fancy = NotRendered
    /\ dump = NotDumped

SpecWindow == InitWindow /\ [][Next]_vars

\* The source characters at the 0-based positions from..to-1 that exist
Chars(from, to) == SubSeq(source, Max(from, 0) + 1, Min(to, Len(source)))

\* The context line for an error at offset o: the up to amt characters
\* before o, the character at o, the up to amt characters after o
ContextLine(o) ==
    sanitize(Chars(o - amt, o)) \o sanitize(Chars(o, o + 1))
    \o sanitize(Chars(o + 1, o + 1 + amt))

\* The caret line: the caret under the first rendered character of the
\* character at o
CaretLine(o) == repeat(Len(sanitize(Chars(o - amt, o)))) \o <<"^">>

\* C18: for every recorded error at offset o, the third line of what
\* fancyErrors renders is the context line of o (the up to 20 characters
\* before o, the character at o, the up to 20 characters after o, newline
\* and tab escaped), and the fourth line has the caret in the column of the
\* character at o; for every o, o < 20 included.
C18_Window ==
    fancy # NotRendered =>
      /\ Len(fancy) = Len(parsed.errors)
      /\ \A i \in DOMAIN fancy :
           /\ fancy[i][3] = <<" ", "|", " ">> \o ContextLine(parsed.errors[i].offset)
           /\ fancy[i][4] = <<" ", "|", " ">> \o CaretLine(parsed.errors[i].offset)

----------------------------------------------------------------------------
(* Dumps *)

DumpAlphabet == {"a", "\"", ":", "@", "(", ")", "{", ",", " "}

Dump_StringOfColon ==
    <<"\"", ":", "\"">>
Dump_TwoWords ==
    <<"\"", "a", " ", "a", "\"">>
Dump_Tagged ==
    <<"@", "a", "(", "a", ",", "a", ")", " ", "a", ":", " ", "a">>

DumpExamples == {Dump_StringOfColon, Dump_TwoWords, Dump_Tagged}

InitDump ==
    /\ \/ /\ source \in StringsUpTo(DumpAlphabet, MaxTextLen)
          /\ sample = [family |-> "text"]
       \/ /\ source \in DumpExamples
          /\ sample = [family |-> "example"]
    /\ tokenStr = source
    /\ tokens = <<>>
    /\ parsed = NotParsed
    /\ fancy = NotRendered
    /\ dump = NotDumped

SpecDump == InitDump /\ [][Next]_vars

\* C19: when the source parsed with zero errors, parsing the text that
\* debugDumpFromNode gives for the root (tags, tag arguments and children
\* rendered) records zero errors too.
C19_DumpReparses ==
    (dump # NotDumped /\ parsed.errors = <<>>) =>
      /\ ~parse(dump).threw
      /\ parse(dump).errors = <<>>

----------------------------------------------------------------------------
(* Trees *)

TreeAlphabet == {"a", ":", ",", ";", "\n", " ", "(", ")", "/", "@"}

Tree_CommaEndsImplicit ==
    <<"(", "x", ":", " ", "a", " ", "b", ",", " ", "c", ")">>
Tree_SemicolonEndsImplicit ==
    <<"(", "x", ":", " ", "a", " ", "b", ";", "c", ")">>
Tree_TwoNewlines ==
    <<"a", ":", "\n", "\n", "b", "\n">>
Tree_ThreeNewlines ==
    <<"a", ":", " ", "\n", "\n", " ", "\n", "b", "\n">>
Tree_Nested ==
    <<"a", ":", " ", "b", ":", " ", "c", "\n", "d", "\n">>
Tree_NestedComma ==
    <<"a", ":", " ", "b", ":", " ", "c", ",", " ", "d", "\n">>
Tree_Tagged ==
    <<"@", "t", "(", "u", ")", " ", "x", ":", " ", "y", "\n">>
Tree_StrayCloser ==
    <<"a", "\n", ")", " ", "b">>
Tree_Slash ==
    <<"a", "\n", "/", " ", "b">>

TreeExamples ==
    {Tree_CommaEndsImplicit, Tree_SemicolonEndsImplicit, Tree_TwoNewlines,
     Tree_ThreeNewlines, Tree_Nested, Tree_NestedComma, Tree_Tagged,
     Tree_StrayCloser, Tree_Slash}

InitTree ==
    /\ \/ /\ source \in StringsUpTo(TreeAlphabet, MaxTextLen)
          /\ sample = [family |-> "text"]
       \/ /\ source \in TreeExamples
          /\ sample = [family |-> "example"]
    /\ tokenStr = source
    /\ tokens = <<>>
    /\ parsed = NotParsed
    /\ fancy = NotRendered
    /\ dump = NotDumped

SpecTree == InitTree /\ [][Next]_vars

\* The character right after the text of n, and the one right before it
CharAfter(n) == charAt(source, n.offset + Len(n.rawString))
CharBefore(n) == charAt(source, n.offset - 1)

\* The flag that a separator gives the node before it, and the node after it
BeforeFlag(sep) == IF sep = "," THEN "IsBeforeComma" ELSE "IsBeforeSemicolon"
AfterFlag(sep) == IF sep = "," THEN "IsAfterComma" ELSE "IsAfterSemicolon"

\* C21: every node whose text is immediately followed by "," or ";" has the
\* matching IsBefore flag, and every node whose text starts right after one
\* has the matching IsAfter flag, also when the separator ends an implicit
\* list: in "(x: a b, c)" b has IsBeforeComma and c has IsAfterComma.
C21_SeparatorFlagsEverywhere ==
    Parsed =>
      /\ \A n \in NodesIn(Root) :
           /\ (n.kind = "Main" /\ CharAfter(n) \in {",", ";"})
                => BeforeFlag(CharAfter(n)) \in n.flags
           /\ (n.kind = "Main" /\ CharBefore(n) \in {",", ";"})
                => AfterFlag(CharBefore(n)) \in n.flags
      /\ source = Tree_CommaEndsImplicit =>
           \A n \in NodesIn(Root) :
             /\ n.string = <<"b">> => "IsBeforeComma" \in n.flags
             /\ n.string = <<"c">> => "IsAfterComma" \in n.flags

\* C22: for every node of the tree, of kind File, Main or Tag, offset is
\* where its rawString starts in the source:
\* source.slice(offset, offset + rawString.length) equals rawString.
C22_OffsetOfRawString ==
    Parsed =>
      \A n \in NodesIn(Root) :
        slice(source, n.offset, n.offset + Len(n.rawString)) = n.rawString

----------------------------------------------------------------------------
(* Block comments and single-delimited strings *)

\* The two characters of s at the 0-based position p
PairAt(s, p) == <<charAt(s, p), charAt(s, p + 1)>>

\* p is where an opener or a closer inside the comment s starts: past the
\* first "/*", and not the second character of another one
RECURSIVE IsMark(_, _)
IsMark(s, p) ==
    /\ p >= 2
    /\ PairAt(s, p) \in {<<"/", "*">>, <<"*", "/">>}
    /\ ~IsMark(s, p - 1)

\* The depth after the mark at p: 1, plus the openers, minus the closers
DepthAfter(s, p) ==
    1 + Cardinality({q \in 2..p : IsMark(s, q) /\ PairAt(s, q) = <<"/", "*">>})
      - Cardinality({q \in 2..p : IsMark(s, q) /\ PairAt(s, q) = <<"*", "/">>})

\* The positions of the closers that bring the depth to 0
Closes(s) ==
    {p \in 2..Len(s) : IsMark(s, p) /\ DepthAfter(s, p) = 0}

MinOf(S) == CHOOSE m \in S : \A k \in S : m <= k

\* C23: for a text starting with "/*" the depth starts at 1, each further
\* "/*" adds 1 and each "*/" subtracts 1; the token is a Comment ending
\* right after the first "*/" that brings the depth to 0 when there is one,
\* and otherwise a BrokenComment covering the whole text.
C23_BlockComment ==
    \A i \in DOMAIN tokens :
      PairAt(TextOf(i), 0) = <<"/", "*">> =>
        IF Closes(TextOf(i)) # {}
        THEN /\ tokens[i].kind = "Comment"
             /\ tokens[i].rawString
                  = SubSeq(TextOf(i), 1, MinOf(Closes(TextOf(i))) + 2)
        ELSE /\ tokens[i].kind = "BrokenComment"
             /\ tokens[i].rawString = TextOf(i)
             /\ tokens[i].remaining = <<>>

\* A comment with a comment inside has been lexed as one token
C23_Witness ==
    /\ Len(tokens) = 1
    /\ tokens[1].kind = "Comment"
    /\ tokens[1].string = <<"/", "*", "*", "/">>
    /\ tokens[1].remaining = <<"\n", "a">>

\* The character of s at the 0-based position p is skipped by a backslash:
\* it is the delimiter d or a backslash, and it follows a backslash that
\* is not itself skipped
RECURSIVE IsSkipped(_, _, _)
IsSkipped(s, p, d) ==
    /\ p >= 2
    /\ charAt(s, p) \in {d, "\\"}
    /\ charAt(s, p - 1) = "\\"
    /\ ~IsSkipped(s, p - 1, d)

\* Where a single-delimited string s ends: at a delimiter or a newline
\* that is not skipped
Stops(s) ==
    {p \in 1..(Len(s) - 1) :
        charAt(s, p) \in {s[1], "\n"} /\ ~IsSkipped(s, p, s[1])}

SingleDelimited(i) ==
    /\ TextOf(i)[1] \in Quotes
    /\ ~TripleDelimited(i)

\* C24: the token of a single-delimited string has no newline in it; when a
\* newline comes before the closing delimiter the token is a
\* BrokenStringLiteral whose rawString ends just before the newline; a
\* backslash skips the next character only when that character is the
\* delimiter or a backslash.
C24_SingleDelimited ==
    \A i \in DOMAIN tokens :
      SingleDelimited(i) =>
        /\ \A k \in DOMAIN tokens[i].rawString : tokens[i].rawString[k] # "\n"
        /\ IF Stops(TextOf(i)) = {}
           THEN /\ tokens[i].kind = "BrokenStringLiteral"
                /\ tokens[i].rawString = TextOf(i)
           ELSE IF charAt(TextOf(i), MinOf(Stops(TextOf(i)))) = "\n"
           THEN /\ tokens[i].kind = "BrokenStringLiteral"
                /\ tokens[i].rawString
                     = SubSeq(TextOf(i), 1, MinOf(Stops(TextOf(i))))
                /\ tokens[i].remaining[1] = "\n"
           ELSE /\ tokens[i].kind = "StringLiteral"
                /\ tokens[i].rawString
                     = SubSeq(TextOf(i), 1, MinOf(Stops(TextOf(i))) + 1)

\* A string with a backslash before a newline has been lexed: the backslash
\* does not skip the newline, and the token ends before it
C24_Witness ==
    /\ Len(tokens) = 1
    /\ sample.family = "literal"
    /\ ~sample.triplet
    /\ sample.body = <<"a", "\\", "\n">>
    /\ tokens[1].kind = "BrokenStringLiteral"
    /\ tokens[1].string = <<"a", "\\">>

----------------------------------------------------------------------------
(* Implicit lists in the tree *)

\* The labels of the children of the first top-level node
FirstChildren == LabelsOf(Top[1].children)

\* C25: when two or more newlines separate the ":" of a named node from
\* the next node, that node does not become a child of the named node
\* unless an error is recorded.
C25_OneNewlineAfterColon ==
    (/\ Parsed
     /\ source \in {Tree_TwoNewlines, Tree_ThreeNewlines}
     /\ Len(Top) >= 1
     /\ Top[1].string = <<"a">>
     /\ FirstChildren = << <<"b">> >>)
      => parsed.errors # <<>>

----------------------------------------------------------------------------
(* The context *)

\* The kind masks and the predicates the parser calls check and consume with
KindMasks ==
    {AllTokens, Label, WhitespaceLine, WhitespaceAll, {"Reserved"}, {"Newline"}}
CondNames == {"any", "isOpener", "isCloser", "isSeparator", "isColon", "isAt"}

\* A context whose remaining is the text still to tokenize, and whose last
\* is the token before it
ContextHere ==
    [ParseContext(source) EXCEPT
        !.remaining = tokenStr,
        !.last = IF tokens = <<>> THEN NoToken ELSE Last(tokens)]

\* r is what the claim says of consume on ctx, token being what check gave
AsClaimed(ctx, token, r) ==
    IF token = NoToken
    THEN /\ r.token = NoToken
         /\ r.ctx = ctx
    ELSE /\ r.token = token
         /\ r.ctx.last = token
         /\ Len(token.rawString) >= 1
         /\ offset(r.ctx) = offset(ctx) + Len(token.rawString)
         /\ r.ctx.remaining
              = SubSeq(ctx.remaining, Len(token.rawString) + 1, Len(ctx.remaining))
         /\ r.ctx.source = ctx.source
         /\ r.ctx.errors = ctx.errors

\* C26: the offset of the context never decreases: a consume that does not
\* match leaves the context as it was, and a consume that matches sets last
\* to the token and raises the offset by the length of the token's
\* rawString, which is at least 1; at the end of a parse the remaining text
\* is an end of the source.
C26_OffsetNeverDecreases ==
    /\ \A kind \in KindMasks : \A name \in CondNames :
         AsClaimed(ContextHere, check(ContextHere, kind, name),
                   consume(ContextHere, kind, name))
    /\ Parsed =>
         /\ Len(parsed.remaining) <= Len(source)
         /\ parsed.remaining
              = SubSeq(source, Len(source) - Len(parsed.remaining) + 1, Len(source))

\* After a token, a colon is next: consume for a colon matches, consume for
\* a label does not
C26_Witness ==
    /\ Len(tokens) = 1
    /\ check(ContextHere, {"Reserved"}, "isColon") # NoToken
    /\ check(ContextHere, Label, "any") = NoToken
    /\ consume(ContextHere, {"Reserved"}, "isColon").ctx.last.string = <<":">>
    /\ offset(consume(ContextHere, AllTokens, "any").ctx) = offset(ContextHere) + 1

----------------------------------------------------------------------------
(* Progress *)

\* Each element of nodes starts after the one before it
Ascending(nodes) ==
    \A i \in DOMAIN nodes : i < Len(nodes) => nodes[i].offset < nodes[i + 1].offset

\* Each element of nodes has a text, and the next one starts at its end or
\* later
OneAfterAnother(nodes) ==
    \A i \in DOMAIN nodes :
      /\ Len(nodes[i].rawString) >= 1
      /\ i < Len(nodes) =>
           nodes[i].offset + Len(nodes[i].rawString) <= nodes[i + 1].offset

\* C27: parse terminates: each round of the loops of consumeAll,
\* parseTagList, parseExplicitChildren and parseImplicitList that does not
\* leave the loop consumes at least one character.  So on a source shorter
\* than the cap of forever() no loop reaches the cap, the children of every
\* node lie one after another in the source, each with a text of its own,
\* the tags of every node start one after another, and a node (whose text
\* spans its tags and children) has no more tags and children than
\* characters.
C27_LoopsProgress ==
    (parsed # NotParsed /\ Len(source) < ForeverCap) =>
      /\ ~parsed.threw
      /\ Len(parsed.remaining) <= Len(source)
      /\ \A n \in NodesIn(Root) :
           /\ OneAfterAnother(n.children)
           /\ Ascending(n.tags)
           /\ n.kind # "Tag" =>
                Len(n.children) + Len(n.tags) <= Len(n.rawString)

\* A parse has ended in front of a "/" that is no comment, whose token has
\* length zero, after whitespace was consumed
C27_Witness ==
    /\ Parsed
    /\ source = <<"a", " ", "/">>
    /\ getToken(parsed.remaining).rawString = <<>>
    /\ LabelsOf(Top) = << <<"a">> >>

----------------------------------------------------------------------------
(* The end of a parse *)

\* C28: when parse returns with an empty error list the whole source was
\* consumed: the remaining text of the context is empty.
C28_AllConsumed ==
    (Parsed /\ parsed.errors = <<>>) => parsed.remaining = <<>>

----------------------------------------------------------------------------
(* Back-references *)

\* The field ref holds a node, and that node is n
Refers(ref, n) == ref # "undefined" /\ ref = n

\* C29: the back-references agree with the children and tags lists: for
\* every node n of the tree, every child and every tag of n has n as its
\* parent, and of two consecutive children a, b of n, a.next is b and
\* b.prev is a.
C29_BackReferences ==
    Parsed =>
      \A n \in NodesIn(Root) :
        /\ \A i \in DOMAIN n.children : Refers(n.children[i].parent, n)
        /\ \A i \in DOMAIN n.tags : Refers(n.tags[i].parent, n)
        /\ \A i \in DOMAIN n.children :
             i < Len(n.children) =>
               /\ Refers(n.children[i].next, n.children[i + 1])
               /\ Refers(n.children[i + 1].prev, n.children[i])

----------------------------------------------------------------------------
(* Nested implicit lists *)

\* C30: the newline or separator that ends an implicit list ends every
\* implicit list open at that point: after "a: b: c" and a newline (or a
\* comma), the node d that follows is not a child of a nor of b, but the
\* sibling of a in the enclosing list.
C30_EndsEveryImplicitList ==
    (Parsed /\ source \in {Tree_Nested, Tree_NestedComma}) =>
      /\ LabelsOf(Top) = << <<"a">>, <<"d">> >>
      /\ LabelsOf(Top[1].children) = << <<"b">> >>
      /\ LabelsOf(Top[1].children[1].children) = << <<"c">> >>

====
